---- MODULE Spec2Model ----
(***************************************************************************)
(* SpenDex: fetch bank notification emails, extract transaction records    *)
(* (amount, date, merchant, direction) and append them to a sheet.         *)
(*                                                                         *)
(* Strings are TLA+ strings; a character is a string of length one.  The   *)
(* regular expressions of helper_functions.py are modelled by what         *)
(* Python's re module does on them: leftmost match, greedy quantifiers,    *)
(* backtracking where the pattern needs it.  The alphabet is ASCII.        *)
(***************************************************************************)
EXTENDS Integers, Sequences, FiniteSets, TLC

(***************************************************************************)
(* Characters and character classes                                        *)
(***************************************************************************)
Ch(s, i) == SubSeq(s, i, i)

CharsOf(s) == {Ch(s, i) : i \in 1..Len(s)}

DigitStr == "0123456789"
UpperStr == "ABCDEFGHIJKLMNOPQRSTUVWXYZ"
LowerStr == "abcdefghijklmnopqrstuvwxyz"

Digit == CharsOf(DigitStr)
Upper == CharsOf(UpperStr)
Lower == CharsOf(LowerStr)

\* \s
WhiteSpace == {" ", "\t", "\n", "\r", "\f"}
\* \w
WordChar == Digit \cup Upper \cup Lower \cup {"_"}

SetMin(S) == CHOOSE x \in S : \A y \in S : x <= y
SetMax(S) == CHOOSE x \in S : \A y \in S : x >= y

\* s[i..] starts with the literal lit (1-based i)
StartsAt(s, i, lit) ==
    /\ i >= 1
    /\ i + Len(lit) - 1 <= Len(s)
    /\ SubSeq(s, i, i + Len(lit) - 1) = lit

\* str.startswith
StartsWith(s, lit) == StartsAt(s, 1, lit)

\* `lit in s`
Contains(s, lit) == \E i \in 1..Len(s) : StartsAt(s, i, lit)

\* str.find: 0-based index of the first occurrence, -1 when absent
Find(s, lit) ==
    LET P == {i \in 1..Len(s) : StartsAt(s, i, lit)}
    IN  IF P = {} THEN -1 ELSE SetMin(P) - 1

\* s[:n] for n >= 0
Prefix(s, n) == SubSeq(s, 1, IF n < Len(s) THEN n ELSE Len(s))

\* index just past the maximal run of characters of class C starting at i
RunEnd(s, i, C) ==
    SetMin({j \in i..(Len(s) + 1) : j = Len(s) + 1 \/ Ch(s, j) \notin C})

\* index just past the maximal run of characters outside class C starting at i
RunEndNot(s, i, C) ==
    SetMin({j \in i..(Len(s) + 1) : j = Len(s) + 1 \/ Ch(s, j) \in C})

\* index just before the maximal run of class C characters ending at i
RunStart(s, i, C) ==
    SetMax({j \in 0..i : j = 0 \/ Ch(s, j) \notin C})

\* str.strip()
Strip(s) ==
    LET lo == RunEnd(s, 1, WhiteSpace)
        hi == RunStart(s, Len(s), WhiteSpace)
    IN  IF lo > hi THEN "" ELSE SubSeq(s, lo, hi)

\* str.split(): the maximal runs of non-whitespace characters
RECURSIVE SplitFrom(_, _)
SplitFrom(s, i) ==
    LET b == RunEnd(s, i, WhiteSpace)
        e == RunEndNot(s, b, WhiteSpace)
    IN  IF b > Len(s) THEN <<>> ELSE <<SubSeq(s, b, e - 1)>> \o SplitFrom(s, e)

Split(s) == SplitFrom(s, 1)

\* str.lower() on the ASCII alphabet
LowerCh(c) ==
    IF c \in Upper
    THEN Ch(LowerStr, CHOOSE i \in 1..26 : Ch(UpperStr, i) = c)
    ELSE c

RECURSIVE ToLower(_)
ToLower(s) ==
    IF Len(s) = 0 THEN ""
    ELSE IF Len(s) = 1 THEN LowerCh(s)
    ELSE ToLower(SubSeq(s, 1, Len(s) \div 2))
             \o ToLower(SubSeq(s, Len(s) \div 2 + 1, Len(s)))

(***************************************************************************)
(* helper_functions.py                                                     *)
(***************************************************************************)

\* A pattern  lit \s* (C+)  tried at position p: \s* is greedy and gives
\* characters back one at a time until the group can start.  The group is
\* never empty, so "" stands for "no match at p".
LabelGroupAt(s, p, lit, C) ==
    IF ~StartsAt(s, p, lit) THEN ""
    ELSE LET a == p + Len(lit)
             w == RunEnd(s, a, WhiteSpace)
             K == {k \in a..w : k <= Len(s) /\ Ch(s, k) \in C}
         IN  IF K = {} THEN ""
             ELSE SubSeq(s, SetMax(K), RunEnd(s, SetMax(K), C) - 1)

\* re.search: the group of the leftmost position where the pattern matches
LabelSearch(s, lit, C) ==
    LET P == {p \in 1..Len(s) : LabelGroupAt(s, p, lit, C) # ""}
    IN  IF P = {} THEN "" ELSE LabelGroupAt(s, SetMin(P), lit, C)

AmountClass == Digit \cup {",", "."}

extract_amount(text) == LabelSearch(text, "INR", AmountClass)

\* (\d{2}-\d{2}-\d{2,4}) tried at position p
DateAt(s, p) ==
    IF /\ p + 7 <= Len(s)
       /\ \A k \in {0, 1, 3, 4, 6, 7} : Ch(s, p + k) \in Digit
       /\ Ch(s, p + 2) = "-"
       /\ Ch(s, p + 5) = "-"
    THEN LET e == RunEnd(s, p + 8, Digit)
         IN  SubSeq(s, p, IF e > p + 10 THEN p + 9 ELSE e - 1)
    ELSE ""

extract_date(text) ==
    LET P == {p \in 1..Len(text) : DateAt(text, p) # ""}
    IN  IF P = {} THEN "" ELSE DateAt(text, SetMin(P))

Trailer1 == " If this transaction"
Trailer2 == " Feel free to connect"

IntMax(a, b) == IF a >= b THEN a ELSE b

\* end_idx = max(find(trailer 1), find(trailer 2))
TrailerEnd(cand) == IntMax(Find(cand, Trailer1), Find(cand, Trailer2))

\* if end_idx != -1: return candidate[:end_idx].strip(); return candidate
TruncateTrailer(cand) ==
    IF TrailerEnd(cand) # -1 THEN Strip(Prefix(cand, TrailerEnd(cand))) ELSE cand

\* ' '.join(words[:2]) if len(words) >= 2 else merchant_full
FirstTwoWords(full) ==
    LET words == Split(full)
    IN  IF Len(words) >= 2 THEN words[1] \o " " \o words[2] ELSE full

InfoClass == WordChar \cup WhiteSpace \cup {"-", "/"}
RefClass == Upper \cup Digit \cup {" "}
NameClass == WordChar \cup {" ", ".", ",", "&", "-"}
NetworkWords == {"NEFT", "IMPS", "RTGS", "CMS"}

\* rule (a): Transaction Info:\s*([\w\s\-/]+)
InfoGroup(text) == LabelSearch(text, "Transaction Info:", InfoClass)

\* rule (b): (NEFT|IMPS|RTGS|CMS)[^\s/]*\/([A-Z0-9 ]+) tried at p, group 2
NetworkGroupAt(s, p) ==
    IF \E kw \in NetworkWords : StartsAt(s, p, kw)
    THEN LET kw == CHOOSE k \in NetworkWords : StartsAt(s, p, k)
             r  == RunEndNot(s, p + Len(kw), WhiteSpace \cup {"/"})
             e  == RunEnd(s, r + 1, RefClass)
         IN  IF r <= Len(s) /\ Ch(s, r) = "/" /\ e > r + 1
             THEN SubSeq(s, r + 1, e - 1) ELSE ""
    ELSE ""

NetworkGroup(text) ==
    LET P == {p \in 1..Len(text) : NetworkGroupAt(text, p) # ""}
    IN  IF P = {} THEN "" ELSE NetworkGroupAt(text, SetMin(P))

\* rule (c): (UPI/[\w/]+/[A-Z0-9 ]+) tried at p; [\w/]+ is greedy and backs
\* off to the last slash that a reference character follows
UpiGroupAt(s, p) ==
    IF StartsAt(s, p, "UPI/")
    THEN LET q == p + 4
             r == RunEnd(s, q, WordChar \cup {"/"})
             K == {k \in (q + 1)..(r - 1) :
                      /\ Ch(s, k) = "/"
                      /\ k + 1 <= Len(s)
                      /\ Ch(s, k + 1) \in RefClass}
         IN  IF K = {} THEN ""
             ELSE SubSeq(s, p, RunEnd(s, SetMax(K) + 1, RefClass) - 1)
    ELSE ""

UpiGroup(text) ==
    LET P == {p \in 1..Len(text) : UpiGroupAt(text, p) # ""}
    IN  IF P = {} THEN "" ELSE UpiGroupAt(text, SetMin(P))

\* rule (d): Merchant Name:\s*([\w .,&-]+)
NameGroup(text) == LabelSearch(text, "Merchant Name:", NameClass)

RuleA(text) ==
    LET cand == Strip(InfoGroup(text))
    IN  IF StartsWith(cand, "UPI/") THEN TruncateTrailer(cand) ELSE cand

RuleB(text) == FirstTwoWords(Strip(NetworkGroup(text)))

RuleC(text) == TruncateTrailer(Strip(UpiGroup(text)))

RuleD(text) == FirstTwoWords(Strip(NameGroup(text)))

\* mutant: the "Merchant Name:" rule is tried first
MerchantRuleNameFirst(text) ==
    IF NameGroup(text) # "" THEN "d"
    ELSE IF InfoGroup(text) # "" THEN "a"
    ELSE IF NetworkGroup(text) # "" THEN "b"
    ELSE IF UpiGroup(text) # "" THEN "c"
    ELSE "none"

\* the rule that extract_merchant answers with; "none" when it falls through
MerchantRule(text) ==
    IF InfoGroup(text) # "" THEN "a"
    ELSE IF NetworkGroup(text) # "" THEN "b"
    ELSE IF UpiGroup(text) # "" THEN "c"
    ELSE IF NameGroup(text) # "" THEN "d"
    ELSE "none"

extract_merchant(text) ==
    LET rule == MerchantRule(text)
    IN  CASE rule = "a" -> RuleA(text)
          [] rule = "b" -> RuleB(text)
          [] rule = "c" -> RuleC(text)
          [] rule = "d" -> RuleD(text)
          [] OTHER -> ""

\* re.search(r'\b(word)\b', s, re.IGNORECASE)
WordSearch(s, word) ==
    LET low == ToLower(s)
    IN  \E p \in 1..Len(s) :
        /\ StartsAt(low, p, word)
        /\ (p = 1 \/ Ch(s, p - 1) \notin WordChar)
        /\ (p + Len(word) > Len(s) \/ Ch(s, p + Len(word)) \notin WordChar)

extract_transaction_type(text, subject) ==
    IF WordSearch(text, "debited") \/ WordSearch(subject, "debited") THEN "debit"
    ELSE IF WordSearch(text, "credited") \/ WordSearch(subject, "credited") THEN "credit"
    ELSE IF WordSearch(text, "spent") \/ WordSearch(subject, "spent") THEN "debit"
    ELSE ""

(***************************************************************************)
(* float(): the token of extract_amount holds digits, commas and points    *)
(* only, so float() accepts it iff it has no comma, at most one point and  *)
(* at least one digit.  The value is kept as an exact decimal              *)
(* num / 10^exp with a sign flag (so that -0.0 is representable).          *)
(***************************************************************************)
Count(s, c) == Cardinality({i \in 1..Len(s) : Ch(s, i) = c})

\* mutant: a missing token counts as a number (float(token or 0))
FloatAcceptsEmpty(tok) ==
    \/ tok = ""
    \/ /\ CharsOf(tok) \subseteq Digit \cup {"."}
       /\ Count(tok, ".") <= 1
       /\ CharsOf(tok) \cap Digit # {}

FloatAccepts(tok) ==
    /\ CharsOf(tok) \subseteq Digit \cup {"."}
    /\ Count(tok, ".") <= 1
    /\ CharsOf(tok) \cap Digit # {}

DigitVal(c) == (CHOOSE i \in 1..10 : Ch(DigitStr, i) = c) - 1

RECURSIVE DigitsToInt(_, _)
DigitsToInt(s, acc) ==
    IF s = "" THEN acc
    ELSE IF Ch(s, 1) = "." THEN DigitsToInt(Tail(s), acc)
    ELSE DigitsToInt(Tail(s), 10 * acc + DigitVal(Ch(s, 1)))

RECURSIVE Normalize(_, _)
Normalize(num, exp) ==
    IF exp > 0 /\ num % 10 = 0 THEN Normalize(num \div 10, exp - 1)
    ELSE [neg |-> FALSE, num |-> num, exp |-> exp]

\* float(tok) for a token float() accepts
Float(tok) ==
    LET dot == Find(tok, ".")
    IN  Normalize(DigitsToInt(tok, 0), IF dot = -1 THEN 0 ELSE Len(tok) - dot - 1)

\* -amount
Negate(a) == [a EXCEPT !.neg = ~a.neg]

(***************************************************************************)
(* fetch_transactions.py: parse_transaction_email                          *)
(*                                                                         *)
(* A message is [multipart, walk, payload, subject]: walk is the sequence  *)
(* email_msg.walk() yields (the container first), payload the decoded      *)
(* payload of a single-part message, subject the raw Subject header.       *)
(* An optional value is a sequence of length 0 (None) or 1.                *)
(***************************************************************************)
None == <<>>
Some(v) == <<v>>

\* mutant: the first text part of either kind is kept
WalkStepFirstText(part, body) ==
    IF part.ctype \in {"text/html", "text/plain"} /\ body = <<>>
    THEN [body |-> <<part.payload>>, stop |-> part.ctype = "text/html"]
    ELSE [body |-> body, stop |-> FALSE]

\* one iteration of the loop over email_msg.walk(): the new body and
\* whether the loop breaks
WalkStep(part, body) ==
    IF part.ctype = "text/html"
    THEN [body |-> Some(part.payload), stop |-> TRUE]
    ELSE IF part.ctype = "text/plain" /\ body = None
    THEN [body |-> Some(part.payload), stop |-> FALSE]
    ELSE [body |-> body, stop |-> FALSE]

RECURSIVE WalkFrom(_, _, _)
WalkFrom(walk, i, body) ==
    IF i > Len(walk) THEN body
    ELSE LET st == WalkStep(walk[i], body)
         IN  IF st.stop THEN st.body ELSE WalkFrom(walk, i + 1, st.body)

SelectBody(m) ==
    IF m.multipart THEN WalkFrom(m.walk, 1, None) ELSE Some(m.payload)

\* `not body`
EmptyBody(body) == body = None \/ body[1] = ""

\* BeautifulSoup(body, 'html.parser').get_text(separator=' ', strip=True):
\* the text nodes between tags, each stripped, the empty ones dropped,
\* joined by one space.  A tag runs from "<" followed by a letter or "/"
\* to the next ">".
TagOpensAt(s, i) ==
    /\ Ch(s, i) = "<"
    /\ i + 1 <= Len(s)
    /\ Ch(s, i + 1) \in Upper \cup Lower \cup {"/"}
    /\ \E j \in (i + 2)..Len(s) : Ch(s, j) = ">"

RECURSIVE TextNodes(_, _)
TextNodes(s, i) ==
    IF i > Len(s) THEN <<>>
    ELSE LET T == {k \in i..Len(s) : TagOpensAt(s, k)}
         IN  IF T = {} THEN <<SubSeq(s, i, Len(s))>>
             ELSE LET lt == SetMin(T)
                      gt == SetMin({j \in (lt + 2)..Len(s) : Ch(s, j) = ">"})
                  IN  <<SubSeq(s, i, lt - 1)>> \o TextNodes(s, gt + 1)

RECURSIVE JoinStripped(_)
JoinStripped(nodes) ==
    IF nodes = <<>> THEN ""
    ELSE LET h == Strip(Head(nodes))
             t == JoinStripped(Tail(nodes))
         IN  IF h = "" THEN t ELSE IF t = "" THEN h ELSE h \o " " \o t

GetText(body) == JoinStripped(TextNodes(body, 1))

\* email.header.decode_header on the subjects of the model: a header
\* without encoded words is one undecoded chunk; the encoded words below
\* decode to the bytes and charset shown.
EncodedWords ==
    [raw \in {"=?utf-8?b?SU5SIDUwMA==?=", "=?x-unknown?q?INR_1?="} |->
        IF raw = "=?utf-8?b?SU5SIDUwMA==?="
        THEN [bytes |-> "INR 500", charset |-> "utf-8"]
        ELSE [bytes |-> "INR 1", charset |-> "x-unknown"]]

KnownCharsets == {"utf-8", "us-ascii", "iso-8859-1"}

\* the subject string: the decoded chunks joined; the raw header when
\* decoding a chunk raises (unknown charset)
DecodeSubject(raw) ==
    IF raw \in DOMAIN EncodedWords
    THEN IF EncodedWords[raw].charset \in KnownCharsets
         THEN EncodedWords[raw].bytes
         ELSE raw
    ELSE raw

\* mutant: the subject is never checked
CurrencyGateDisabled(subject) == TRUE

\* `"INR" not in subject` is the negation of this
CurrencyGate(subject) == Contains(subject, "INR")

\* the dict built at the end of parse_transaction_email
Assemble(amount, date, merchant, type) ==
    [amount |-> amount, date |-> date, merchant |-> merchant, type |-> type]

\* mutant: the sign is flipped for debits instead of credits
SignedAmountDebitNegated(magnitude, type) ==
    IF type = "debit" THEN Negate(magnitude) ELSE magnitude

\* amount = float(...); if tx_type == 'credit': amount = -amount
SignedAmount(magnitude, type) ==
    IF type = "credit" THEN Negate(magnitude) ELSE magnitude

\* lines 181-196, for a text whose amount token float() accepts
ParseFields(text, subject) ==
    LET type == extract_transaction_type(text, subject)
    IN  Assemble(SignedAmount(Float(extract_amount(text)), type),
                 extract_date(text), extract_merchant(text), type)

\* the return path parse_transaction_email takes once the body is selected
BodyOutcome(b, rawSubject) ==
    IF EmptyBody(b) THEN "empty_body"
    ELSE IF ~CurrencyGate(DecodeSubject(rawSubject)) THEN "no_inr"
    ELSE IF ~FloatAccepts(extract_amount(GetText(b[1]))) THEN "error"
    ELSE "parsed"

\* the value it returns on that path: Some(record) or None
BodyResult(b, rawSubject) ==
    IF BodyOutcome(b, rawSubject) = "parsed"
    THEN Some(ParseFields(GetText(b[1]), DecodeSubject(rawSubject)))
    ELSE None

\* parse_transaction_email as a function of the message
parse_transaction_email(m) == BodyResult(SelectBody(m), m.subject)

(***************************************************************************)
(* fetch_transactions.py: main, append_rows_with_retry                     *)
(***************************************************************************)
max_retries == 5
chunk_size == 100

\* mutant: the loop stops one attempt early
RetryLoopCondStrict(attempt) == attempt < max_retries

\* while attempt <= max_retries
RetryLoopCond(attempt) == attempt <= max_retries

\* mutant: the second pass extends the list of the first loop
ListCompExtend(old, es) ==
    old \o [i \in 1..Len(es) |-> parse_transaction_email(es[i])]

\* transactions = [parse_transaction_email(e) for e in emails]: the
\* assignment rebinds the list the first loop filled
ListComp(old, es) == [i \in 1..Len(es) |-> parse_transaction_email(es[i])]

\* mutant: records without a direction are filtered out as well
TruthyComplete(t) == t # None /\ t[1].type # ""

\* `if t` for t a dict or None
Truthy(t) == t # None /\ DOMAIN t[1] # {}

\* [t['date'], t['merchant'], t['amount'], t['type']]
RowOf(t) == <<t.date, t.merchant, t.amount, t.type>>

\* rows[i:i+chunk_size]
Chunk(rs, i) ==
    SubSeq(rs, i + 1, IF i + chunk_size < Len(rs) THEN i + chunk_size ELSE Len(rs))

(***************************************************************************)
(* Bounds and inputs                                                       *)
(***************************************************************************)
MaxFrags == 2
MaxParts == 2
MaxMerchantFrags == 3
MaxMsgs == 2

\* all concatenations of at most n fragments
RECURSIVE Concats(_, _)
Concats(F, n) ==
    IF n = 0 THEN {""}
    ELSE Concats(F, n - 1) \cup {a \o b : a \in Concats(F, n - 1), b \in F}

RECURSIVE SeqsUpTo(_, _)
SeqsUpTo(S, n) ==
    IF n = 0 THEN {<<>>}
    ELSE SeqsUpTo(S, n - 1) \cup {Append(q, x) : q \in SeqsUpTo(S, n - 1), x \in S}

Scenario1Text ==
    "Transaction Info: UPI/merchantx/1234 If this transaction was not made by you..."
Scenario1Subject == "INR 500 debited"

BodyFragments ==
    { "INR 500 ", "INR 1,234.50 ", "INR 1.2.3 ", "credited ",
      "debited on 25-06-2024 ", "<p>INR</p><b>70.5</b> spent ",
      "Merchant Name: Foo Bar. INR 40 spent 01-05-24 ", Scenario1Text }

Bodies == Concats(BodyFragments, MaxFrags)

Subjects ==
    { Scenario1Subject, "INR Credit Alert", "Account credited",
      "=?utf-8?b?SU5SIDUwMA==?=", "=?x-unknown?q?INR_1?=" }

Container == [ctype |-> "multipart/alternative", payload |-> ""]

PartKinds ==
    [ctype : {"text/html", "text/plain", "image/png"},
     payload : {"", "INR 500 debited", "<p>INR 70</p> credited"}]

SinglePart(payload, subject) ==
    [multipart |-> FALSE, walk |-> <<>>, payload |-> payload, subject |-> subject]

MultiPart(parts, subject) ==
    [multipart |-> TRUE, walk |-> <<Container>> \o parts, payload |-> "",
     subject |-> subject]

Messages ==
    {SinglePart(b, sj) : b \in Bodies, sj \in Subjects}
    \cup {MultiPart(ps, sj) : ps \in SeqsUpTo(PartKinds, MaxParts), sj \in Subjects}

MerchantFragments ==
    { "Transaction Info: UPI/m/1", Trailer1, Trailer2, "NEFT-X1/ACME CORP LTD.",
      "UPI/P2M/9/SHOP ONE.", "Merchant Name: Foo Bar Baz.", "Transaction Info: ." }

MerchantTexts == Concats(MerchantFragments, MaxMerchantFrags)

MainMessages ==
    { SinglePart("INR 500 debited on 25-06-2024", Scenario1Subject),
      MultiPart(<<[ctype |-> "text/plain", payload |-> "INR 500 debited"],
                  [ctype |-> "text/html", payload |-> "<p>INR 70</p> credited"]>>,
                "INR Credit Alert"),
      SinglePart("INR 500 debited", "Account credited"),
      SinglePart("", Scenario1Subject),
      SinglePart("your account was debited", Scenario1Subject),
      SinglePart("INR 9", "INR Credit Alert") }

Mailboxes == SeqsUpTo(MainMessages, MaxMsgs)

(***************************************************************************)
(* State                                                                   *)
(***************************************************************************)
VARIABLES
    pc,            \* position in the function being run
    msg,           \* parse_transaction_email: email_msg
    wi,            \* index of the next part of email_msg.walk()
    body,          \* body (None or bytes)
    result,        \* the value parse_transaction_email returns
    outcome,       \* the return path it took
    text,          \* extract_merchant: text
    merchant,      \* the value extract_merchant returns
    mailbox,       \* main: the messages the Gmail query matches
    yielded,       \* messages the generator of the first loop has yielded
    emails,        \* messages the second fetch yielded
    transactions,  \* transactions
    rows,          \* rows
    ci,            \* chunk loop index i
    attempt,       \* append_rows_with_retry: attempt
    calls,         \* outcomes of the ws.append_rows calls of this invocation
    ret,           \* the value append_rows_with_retry returns
    sheet          \* rows the worksheet holds

parseVars == <<msg, wi, body, result, outcome>>
helperVars == <<text, merchant>>
mainVars == <<mailbox, yielded, emails, transactions, rows, ci, attempt, calls, ret, sheet>>
vars == <<pc, parseVars, helperVars, mainVars>>

IdleParse ==
    /\ msg = SinglePart("", "")
    /\ wi = 1
    /\ body = None
    /\ result = None
    /\ outcome = ""

IdleHelper == text = "" /\ merchant = ""

IdleMain ==
    /\ mailbox = <<>>
    /\ yielded = 0
    /\ emails = <<>>
    /\ transactions = <<>>
    /\ rows = <<>>
    /\ ci = 0
    /\ attempt = 0
    /\ calls = <<>>
    /\ ret = FALSE
    /\ sheet = <<>>

(***************************************************************************)
(* parse_transaction_email on one message                                  *)
(***************************************************************************)
InitParse ==
    /\ pc = "begin"
    /\ msg \in Messages
    /\ wi = 1
    /\ body = None
    /\ result = None
    /\ outcome = ""
    /\ IdleHelper
    /\ IdleMain

\* else: body = email_msg.get_payload(decode=True)
SinglePartBody ==
    /\ pc = "begin"
    /\ ~msg.multipart
    /\ body' = Some(msg.payload)
    /\ pc' = "body"
    /\ UNCHANGED <<msg, wi, result, outcome, helperVars, mainVars>>

\* if email_msg.is_multipart(): for part in email_msg.walk()
EnterWalk ==
    /\ pc = "begin"
    /\ msg.multipart
    /\ wi' = 1
    /\ pc' = "walk"
    /\ UNCHANGED <<msg, body, result, outcome, helperVars, mainVars>>

\* one iteration of the loop over the parts
WalkPart ==
    /\ pc = "walk"
    /\ wi <= Len(msg.walk)
    /\ LET st == WalkStep(msg.walk[wi], body)
       IN  /\ body' = st.body
           /\ wi' = IF st.stop THEN wi ELSE wi + 1
           /\ pc' = IF st.stop THEN "body" ELSE "walk"
    /\ UNCHANGED <<msg, result, outcome, helperVars, mainVars>>

\* the loop runs out of parts
WalkEnd ==
    /\ pc = "walk"
    /\ wi > Len(msg.walk)
    /\ pc' = "body"
    /\ UNCHANGED <<parseVars, helperVars, mainVars>>

Return(v, path) ==
    /\ result' = v
    /\ outcome' = path
    /\ pc' = "done"
    /\ UNCHANGED <<msg, wi, body, helperVars, mainVars>>

\* if not body: return None
ReturnEmptyBody ==
    /\ pc = "body"
    /\ BodyOutcome(body, msg.subject) = "empty_body"
    /\ Return(None, "empty_body")

\* if "INR" not in subject: return None
ReturnNoInr ==
    /\ pc = "body"
    /\ BodyOutcome(body, msg.subject) = "no_inr"
    /\ Return(None, "no_inr")

\* float() raises ValueError; except Exception: return None
ReturnError ==
    /\ pc = "body"
    /\ BodyOutcome(body, msg.subject) = "error"
    /\ Return(None, "error")

\* return parsed
ReturnParsed ==
    /\ pc = "body"
    /\ BodyOutcome(body, msg.subject) = "parsed"
    /\ Return(BodyResult(body, msg.subject), "parsed")

NextParse ==
    \/ SinglePartBody
    \/ EnterWalk
    \/ WalkPart
    \/ WalkEnd
    \/ ReturnEmptyBody
    \/ ReturnNoInr
    \/ ReturnError
    \/ ReturnParsed

SpecParse == InitParse /\ [][NextParse]_vars

(***************************************************************************)
(* extract_merchant on one text                                            *)
(***************************************************************************)
InitMerchant ==
    /\ pc = "call"
    /\ text \in MerchantTexts
    /\ merchant = ""
    /\ IdleParse
    /\ IdleMain

CallExtractMerchant ==
    /\ pc = "call"
    /\ merchant' = extract_merchant(text)
    /\ pc' = "ret"
    /\ UNCHANGED <<text, parseVars, mainVars>>

NextMerchant == CallExtractMerchant

SpecMerchant == InitMerchant /\ [][NextMerchant]_vars

(***************************************************************************)
(* main: fetch, parse, filter, append in chunks with retry                 *)
(***************************************************************************)
InitMain ==
    /\ pc = "start"
    /\ mailbox \in Mailboxes
    /\ yielded = 0
    /\ emails = <<>>
    /\ transactions = <<>>
    /\ rows = <<>>
    /\ ci = 0
    /\ attempt = 0
    /\ calls = <<>>
    /\ ret = FALSE
    /\ sheet = <<>>
    /\ IdleParse
    /\ IdleHelper

\* authenticate_gmail() returns None: return
GmailAuthFails ==
    /\ pc = "start"
    /\ pc' = "no_gmail"
    /\ UNCHANGED <<parseVars, helperVars, mainVars>>

\* --auth-only: authenticate the sheet client and return
AuthOnly ==
    /\ pc = "start"
    /\ pc' = "auth_only"
    /\ UNCHANGED <<parseVars, helperVars, mainVars>>

\* transactions = []; the first for loop starts the generator
StartFirstLoop ==
    /\ pc = "start"
    /\ transactions' = <<>>
    /\ yielded' = 0
    /\ pc' = "loop1"
    /\ UNCHANGED <<mailbox, emails, rows, ci, attempt, calls, ret, sheet,
                   parseVars, helperVars>>

\* the generator yields the next message; the loop body appends its parse
FirstLoopYield ==
    /\ pc = "loop1"
    /\ yielded < Len(mailbox)
    /\ transactions' =
           Append(transactions, parse_transaction_email(mailbox[yielded + 1]))
    /\ yielded' = yielded + 1
    /\ UNCHANGED <<pc, mailbox, emails, rows, ci, attempt, calls, ret, sheet,
                   parseVars, helperVars>>

\* the generator ends: every message was yielded, or a Gmail call raised
\* and fetch_transaction_emails caught it
FirstLoopEnd ==
    /\ pc = "loop1"
    /\ pc' = "refetch"
    /\ UNCHANGED <<parseVars, helperVars, mainVars>>

\* emails = fetch_transaction_emails(...); transactions = [parse(e) for e in
\* emails]: the second generator yields a prefix of the mailbox
Refetch ==
    /\ pc = "refetch"
    /\ \E n \in 0..Len(mailbox) :
           /\ emails' = SubSeq(mailbox, 1, n)
           /\ transactions' = ListComp(transactions, SubSeq(mailbox, 1, n))
    /\ pc' = "filter"
    /\ UNCHANGED <<mailbox, yielded, rows, ci, attempt, calls, ret, sheet,
                   parseVars, helperVars>>

\* transactions = [t for t in transactions if t]
Filter ==
    /\ pc = "filter"
    /\ transactions' = SelectSeq(transactions, Truthy)
    /\ pc' = "sheets"
    /\ UNCHANGED <<mailbox, yielded, emails, rows, ci, attempt, calls, ret, sheet,
                   parseVars, helperVars>>

\* authenticate_sheets() returns None: return
SheetsAuthFails ==
    /\ pc = "sheets"
    /\ pc' = "no_sheet"
    /\ UNCHANGED <<parseVars, helperVars, mainVars>>

\* rows = [[t['date'], t['merchant'], t['amount'], t['type']] for t in ...]
BuildRows ==
    /\ pc = "sheets"
    /\ rows' = [i \in 1..Len(transactions) |-> RowOf(transactions[i][1])]
    /\ ci' = 0
    /\ pc' = "chunks"
    /\ UNCHANGED <<mailbox, yielded, emails, transactions, attempt, calls, ret,
                   sheet, parseVars, helperVars>>

\* for i in range(0, len(rows), chunk_size): append_rows_with_retry(chunk)
NextChunk ==
    /\ pc = "chunks"
    /\ ci < Len(rows)
    /\ attempt' = 0
    /\ calls' = <<>>
    /\ pc' = "retry"
    /\ UNCHANGED <<mailbox, yielded, emails, transactions, rows, ci, ret, sheet,
                   parseVars, helperVars>>

\* the range is exhausted
ChunksDone ==
    /\ pc = "chunks"
    /\ ci >= Len(rows)
    /\ pc' = "exit"
    /\ UNCHANGED <<parseVars, helperVars, mainVars>>

\* ws.append_rows succeeds: return True
AppendSucceeds ==
    /\ pc = "retry"
    /\ RetryLoopCond(attempt)
    /\ calls' = Append(calls, "ok")
    /\ sheet' = sheet \o Chunk(rows, ci)
    /\ ret' = TRUE
    /\ pc' = "returned"
    /\ UNCHANGED <<mailbox, yielded, emails, transactions, rows, ci, attempt,
                   parseVars, helperVars>>

\* ws.append_rows raises a quota error: attempt += 1; sleep; continue
AppendHitsQuota ==
    /\ pc = "retry"
    /\ RetryLoopCond(attempt)
    /\ calls' = Append(calls, "quota")
    /\ attempt' = attempt + 1
    /\ UNCHANGED <<pc, mailbox, yielded, emails, transactions, rows, ci, ret, sheet,
                   parseVars, helperVars>>

\* ws.append_rows raises another error: return False
AppendFails ==
    /\ pc = "retry"
    /\ RetryLoopCond(attempt)
    /\ calls' = Append(calls, "other")
    /\ ret' = FALSE
    /\ pc' = "returned"
    /\ UNCHANGED <<mailbox, yielded, emails, transactions, rows, ci, attempt, sheet,
                   parseVars, helperVars>>

\* the while loop ends: return False
RetriesExhausted ==
    /\ pc = "retry"
    /\ ~RetryLoopCond(attempt)
    /\ ret' = FALSE
    /\ pc' = "returned"
    /\ UNCHANGED <<mailbox, yielded, emails, transactions, rows, ci, attempt, calls,
                   sheet, parseVars, helperVars>>

\* success: on to the next chunk
ChunkAppended ==
    /\ pc = "returned"
    /\ ret
    /\ ci' = ci + chunk_size
    /\ pc' = "chunks"
    /\ UNCHANGED <<mailbox, yielded, emails, transactions, rows, attempt, calls,
                   ret, sheet, parseVars, helperVars>>

\* if not success: break
StopWrites ==
    /\ pc = "returned"
    /\ ~ret
    /\ pc' = "exit"
    /\ UNCHANGED <<parseVars, helperVars, mainVars>>

NextMain ==
    \/ GmailAuthFails
    \/ AuthOnly
    \/ StartFirstLoop
    \/ FirstLoopYield
    \/ FirstLoopEnd
    \/ Refetch
    \/ Filter
    \/ SheetsAuthFails
    \/ BuildRows
    \/ NextChunk
    \/ ChunksDone
    \/ AppendSucceeds
    \/ AppendHitsQuota
    \/ AppendFails
    \/ RetriesExhausted
    \/ ChunkAppended
    \/ StopWrites

SpecMain == InitMain /\ [][NextMain]_vars

(***************************************************************************)
(* Properties                                                              *)
(***************************************************************************)
\* the text and subject the extractors of the current message see
CurText == GetText(body[1])
CurSubject == DecodeSubject(msg.subject)

RECURSIVE StripCommas(_)
StripCommas(s) ==
    IF Len(s) = 0 THEN ""
    ELSE IF Len(s) = 1 THEN (IF s = "," THEN "" ELSE s)
    ELSE StripCommas(SubSeq(s, 1, Len(s) \div 2))
             \o StripCommas(SubSeq(s, Len(s) \div 2 + 1, Len(s)))

Magnitude(a) == [a EXCEPT !.neg = FALSE]

\* C1: when the subject contains "INR" and the first amount token of the
\* text has thousands commas, parse_transaction_email returns a record whose
\* amount magnitude is the token with the commas stripped.
C1CommaInsensitive ==
    (/\ pc = "done"
     /\ ~EmptyBody(body)
     /\ Contains(CurSubject, "INR")
     /\ Contains(extract_amount(CurText), ",")
     /\ FloatAccepts(StripCommas(extract_amount(CurText))))
    => (/\ result # None
        /\ Magnitude(result[1].amount) = Float(StripCommas(extract_amount(CurText))))

\* C2: a message whose decoded subject lacks "INR" yields no record,
\* whatever its body holds.
C2CurrencyGate ==
    (pc = "done" /\ ~Contains(CurSubject, "INR")) => result = None

C2Witness ==
    /\ pc = "done"
    /\ ~Contains(CurSubject, "INR")
    /\ ~EmptyBody(body)
    /\ FloatAccepts(extract_amount(CurText))
    /\ extract_date(CurText) # ""
    /\ extract_merchant(CurText) # ""
    /\ extract_transaction_type(CurText, "") # ""
    /\ result = None

HasWord(w) == WordSearch(CurText, w) \/ WordSearch(CurSubject, w)

\* C3: in every record returned, type 'credit' stores the negated magnitude
\* (negative for a positive magnitude), type 'debit' or '' stores the
\* magnitude itself (non-negative); 'debit' comes from "debited" or "spent".
C3SignConvention ==
    (pc = "done" /\ result # None) =>
        LET r == result[1]
            mag == Float(extract_amount(CurText))
        IN  /\ r.type \in {"credit", "debit", ""}
            /\ r.type = "credit" =>
                   /\ r.amount = [neg |-> TRUE, num |-> mag.num, exp |-> mag.exp]
                   /\ HasWord("credited") /\ ~HasWord("debited")
            /\ r.type \in {"debit", ""} => (r.amount = mag /\ ~r.amount.neg)
            /\ r.type = "debit" => (HasWord("debited") \/ HasWord("spent"))

C3Witness ==
    /\ pc = "done"
    /\ result # None
    /\ result[1].type = "credit"
    /\ result[1].amount.neg
    /\ result[1].amount.num > 0

Scenario1Message == SinglePart(Scenario1Text, Scenario1Subject)
Scenario1WithAmount == SinglePart("INR 500 " \o Scenario1Text, Scenario1Subject)
FiveHundred == [neg |-> FALSE, num |-> 500, exp |-> 0]

\* C7 as stated: scenario 1 (the amount only in the subject) returns the
\* record {amount 500.0, merchant "UPI/merchantx/1234", type "debit"}.
C7Scenario1Record ==
    (pc = "done" /\ msg = Scenario1Message) =>
        /\ result # None
        /\ result[1].amount = FiveHundred
        /\ result[1].merchant = "UPI/merchantx/1234"
        /\ result[1].type = "debit"

\* C7 amended: on scenario 1 the message is dropped, because the amount is
\* searched in the body text only; merchant and type extraction on it give
\* "UPI/merchantx/1234" and "debit", and the record of the scenario is
\* returned once the body itself starts with "INR 500 ".
C7Scenario1Dropped ==
    /\ (pc = "done" /\ msg = Scenario1Message) =>
           /\ result = None
           /\ outcome = "error"
           /\ extract_amount(CurText) = ""
           /\ extract_merchant(CurText) = "UPI/merchantx/1234"
           /\ extract_transaction_type(CurText, CurSubject) = "debit"
    /\ (pc = "done" /\ msg = Scenario1WithAmount) =>
           result = Some([amount |-> FiveHundred, date |-> "",
                          merchant |-> "UPI/merchantx/1234", type |-> "debit"])

C7Witness == pc = "done" /\ msg = Scenario1Message /\ outcome = "error"

PartsOfType(ct) == {i \in 1..Len(msg.walk) : msg.walk[i].ctype = ct}

\* C8: for a multipart message the body used is the payload of the first
\* text/html part when there is one, else that of the first text/plain
\* part; a plain part is never used when an HTML part exists.
C8BodySelection ==
    (pc \in {"body", "done"} /\ msg.multipart) =>
        body = IF PartsOfType("text/html") # {}
               THEN Some(msg.walk[SetMin(PartsOfType("text/html"))].payload)
               ELSE IF PartsOfType("text/plain") # {}
               THEN Some(msg.walk[SetMin(PartsOfType("text/plain"))].payload)
               ELSE None

C8Witness ==
    /\ pc = "done"
    /\ msg.multipart
    /\ \E i \in PartsOfType("text/plain") : \E j \in PartsOfType("text/html") :
           /\ i < j
           /\ msg.walk[i].payload # msg.walk[j].payload
           /\ body = Some(msg.walk[j].payload)
    /\ result # None

\* the value rules (a) and (c) capture, stripped
Captured(t) ==
    IF MerchantRule(t) = "a" THEN Strip(InfoGroup(t)) ELSE Strip(UpiGroup(t))

TrailerIndexes(c) == {Find(c, Trailer1), Find(c, Trailer2)} \ {-1}

\* C5: in rules (a) and (c), a captured value that begins with "UPI/" is
\* returned truncated at whichever trailer phrase occurs first, and whole
\* when it holds neither.
C5TruncateAtFirstTrailer ==
    (/\ pc = "ret"
     /\ MerchantRule(text) \in {"a", "c"}
     /\ StartsWith(Captured(text), "UPI/"))
    => merchant = IF TrailerIndexes(Captured(text)) = {}
                  THEN Captured(text)
                  ELSE Strip(Prefix(Captured(text),
                                    SetMin(TrailerIndexes(Captured(text)))))

\* the output of the first rule, in the order (a), (b), (c), (d), whose
\* pattern matches; "" when none does
FirstMatchOutput(t) ==
    IF InfoGroup(t) # "" THEN RuleA(t)
    ELSE IF NetworkGroup(t) # "" THEN RuleB(t)
    ELSE IF UpiGroup(t) # "" THEN RuleC(t)
    ELSE IF NameGroup(t) # "" THEN RuleD(t)
    ELSE ""

NoRuleMatches(t) ==
    InfoGroup(t) = "" /\ NetworkGroup(t) = "" /\ UpiGroup(t) = "" /\ NameGroup(t) = ""

RECURSIVE ExpectedRows(_)
ExpectedRows(es) ==
    IF es = <<>> THEN <<>>
    ELSE ExpectedRows(SubSeq(es, 1, Len(es) - 1)) \o
         (LET m == es[Len(es)]
              b == SelectBody(m)
          IN  IF \/ EmptyBody(b)
                 \/ ~Contains(DecodeSubject(m.subject), "INR")
                 \/ ~FloatAccepts(extract_amount(GetText(b[1])))
              THEN <<>>
              ELSE <<RowOf(parse_transaction_email(m)[1])>>)

RowsBuilt == pc \in {"chunks", "retry", "returned", "exit"}

\* C4: a message whose parsing fails yields no row and stops nothing; the
\* rows handed to the sink are the records of the other fetched messages,
\* each once and in fetch order.
C4FailureContainment ==
    /\ RowsBuilt => rows = ExpectedRows(emails)
    /\ (pc = "returned" /\ ret) => sheet = ExpectedRows(emails)

C4Witness ==
    /\ pc = "returned"
    /\ ret
    /\ Len(emails) = 2
    /\ parse_transaction_email(emails[1]) = None
    /\ parse_transaction_email(emails[2]) # None
    /\ sheet = <<RowOf(parse_transaction_email(emails[2])[1])>>

Parses(m) ==
    /\ ~EmptyBody(SelectBody(m))
    /\ Contains(DecodeSubject(m.subject), "INR")
    /\ FloatAccepts(extract_amount(GetText(SelectBody(m)[1])))

HasDate(t) == \E p \in 1..Len(t) : DateAt(t, p) # ""

HasDirection(t, sj) ==
    \E w \in {"debited", "credited", "spent"} : WordSearch(t, w) \/ WordSearch(sj, w)

\* C9: a message with a non-empty body, "INR" in the subject and an amount
\* that parses gives a record even without date, merchant or direction; the
\* missing fields are empty strings and the record stays in the output.
C9IncompleteRecordsKept ==
    RowsBuilt =>
        /\ Len(rows) = Cardinality({i \in 1..Len(emails) : Parses(emails[i])})
        /\ \A i \in 1..Len(emails) :
               Parses(emails[i]) =>
                   LET t == GetText(SelectBody(emails[i])[1])
                       sj == DecodeSubject(emails[i].subject)
                   IN  \E k \in 1..Len(rows) :
                           /\ rows[k][3].num = Float(extract_amount(t)).num
                           /\ ~HasDate(t) => rows[k][1] = ""
                           /\ NoRuleMatches(t) => rows[k][2] = ""
                           /\ ~HasDirection(t, sj) => rows[k][4] = ""
                           /\ (~HasDate(t) /\ NoRuleMatches(t) /\ ~HasDirection(t, sj))
                                  => rows[k] = <<"", "", Float(extract_amount(t)), "">>

C9Witness ==
    /\ RowsBuilt
    /\ \E k \in 1..Len(rows) : rows[k][1] = "" /\ rows[k][2] = "" /\ rows[k][4] = ""

\* C10: append_rows_with_retry makes at most max_retries + 1 calls; it
\* returns True exactly when its last call succeeded, False at once on the
\* first error that is no quota error, and False when all max_retries + 1
\* calls hit the quota.
C10BoundedRetry ==
    /\ Len(calls) <= max_retries + 1
    /\ pc = "retry" => \A i \in 1..Len(calls) : calls[i] = "quota"
    /\ pc = "returned" =>
           /\ Len(calls) >= 1
           /\ \A i \in 1..(Len(calls) - 1) : calls[i] = "quota"
           /\ ret <=> calls[Len(calls)] = "ok"
           /\ calls[Len(calls)] = "other" => ~ret
           /\ calls[Len(calls)] = "quota" => (~ret /\ Len(calls) = max_retries + 1)

C10Witness ==
    /\ pc = "returned"
    /\ ~ret
    /\ Len(calls) = max_retries + 1
    /\ \A i \in 1..Len(calls) : calls[i] = "quota"

====
